---- MODULE Spec2Model ----
(***************************************************************************)
(* State-machine model of the trpc-zustand store adapters                  *)
(* (queryStoreCreatorFactory, mutationStoreCreatorFactory and              *)
(* subscriptionStoreCreatorFactory) and of the live-query registry          *)
(* (register, invalidate, count).                                          *)
(*                                                                         *)
(* One query store Q, one mutation store M whose refetchStores option may  *)
(* return [Q], and one subscription store S are modelled.  Every call of a *)
(* trigger (query, refetch, mutate, subscribe) is a record: it carries the *)
(* closure variable `stopped` of that call, the promise the call returned  *)
(* and the remote call it issued.                                          *)
(***************************************************************************)
EXTENDS Integers, Sequences, FiniteSets, TLC

\* ---------------------------------------------------------------- bounds
MaxOps == 3        \* trigger calls made on the query and mutation stores
MaxSubs == 2       \* subscribe calls made on the subscription store
MaxItems == 2      \* items the transport delivers to one subscription
MaxCancels == 2    \* calls of one cancel function that are counted
MaxCalls == 1      \* calls the application makes when the three stores run side by side
MaxRegs == 2       \* registrations made in the live-query registry
MaxReruns == 2     \* resolver re-runs started on a store of live subscriptions
MaxFields == 2     \* fields of a parameter object passed to the key helper

\* ------------------------------------------------------------ value space
\* The adapter never inspects an input, a result or an error: it only stores
\* and forwards them.  Call k of a store therefore passes the fresh input
\* InputOf(k), and its remote call settles with the fresh result
\* RemoteResult(k) or the fresh error RemoteError(k).
Undefined == 0             \* the JavaScript value undefined
DisabledError == 0 - 1     \* new Error("... is disabled")
InputOf(k) == k
RemoteResult(k) == k
RemoteError(k) == k
ItemOf(k, n) == (k - 1) * MaxItems + n   \* the n-th item of subscription k

VARIABLES
  q, qOps, qStop, qCancelledBy,   \* the query store Q
  m, mOps, mStop, mCancelledBy,   \* the mutation store M
  refetchStores,                  \* M's option: the stores refetchStores() returns
  s, subs, sStop,                 \* the subscription store S
  index, regs, pass,              \* the live-query registry
  lives,                          \* the live-query subscriptions
  keyArgs, keyStrings             \* a call of the key helper and its results

qVars == <<q, qOps, qStop, qCancelledBy>>
mVars == <<m, mOps, mStop, mCancelledBy>>
sVars == <<s, subs, sStop>>
wireVars == <<lives, keyArgs, keyStrings>>
liveVars == <<index, regs, pass, wireVars>>
vars == <<qVars, mVars, refetchStores, sVars, liveVars>>

\* ------------------------------------------------------- shared helpers
\* zustand's set(partial): a shallow merge of the patch into the state
Set(state, patch) ==
  [f \in DOMAIN state |-> IF f \in DOMAIN patch THEN patch[f] ELSE state[f]]

InitialState ==
  [input |-> Undefined, loading |-> FALSE, data |-> Undefined, error |-> Undefined]

\* stop(): the closure of call ptr sets that call's `stopped`; the initial
\* closure () => {} (ptr = 0) does nothing
CallStop(os, ptr) ==
  IF ptr = 0 THEN os ELSE [os EXCEPT ![ptr].stopped = TRUE]

\* the record of one trigger call: its input, whether it issued the remote
\* call, its closure variable stopped, the promise it returned (value is the
\* result or the error), whether its settlement called set, and the refetch
\* calls it made on the query store
NewOp(kind, input, remote) ==
  [kind |-> kind, input |-> input, remote |-> remote,
   stopped |-> FALSE,
   promise |-> IF remote THEN "pending" ELSE "rejected",
   value |-> IF remote THEN Undefined ELSE DisabledError,
   effect |-> "none", refetched |-> <<>>]

\* calls whose remote call is unsettled and whose stopped flag is false
Live(os) ==
  {k \in 1..Len(os) : os[k].remote /\ os[k].promise = "pending" /\ ~os[k].stopped}

\* which control cancelled the in-flight call: reset() or disable() calling
\* stop() while the call that stop belongs to is live; a trigger on the
\* enabled store starts a new call and sets it back to "none"
CancelledBy(os, ptr, was, who) ==
  IF ptr \in Live(os) THEN who ELSE was

\* refetch calls that the live mutations will still issue when they succeed
Reserved == Len(refetchStores) * Cardinality(Live(mOps))

\* calls made so far, and those a trigger called now can still lead to
Calls == Len(qOps) + Len(mOps)

\* a cancelled call whose promise settles with undefined
Settled_CancelledYieldsUndefined(op, ok, k) ==
  [op EXCEPT !.promise = IF ok THEN "resolved" ELSE "rejected",
             !.value = IF op.stopped THEN Undefined
                       ELSE IF ok THEN RemoteResult(k) ELSE RemoteError(k),
             !.effect = IF op.stopped THEN "skipped" ELSE "set"]

\* the awaited remote call of call k settles
Settled(op, ok, k) ==
  [op EXCEPT !.promise = IF ok THEN "resolved" ELSE "rejected",
             !.value = IF ok THEN RemoteResult(k) ELSE RemoteError(k),
             !.effect = IF op.stopped THEN "skipped" ELSE "set"]

\* ------------------------------------------------------------ query store
\* query that sets the loading state before it tests enabled
QueryCall_TestsEnabledLate(st, os, stp, by, input, kind) ==
  IF ~st.enabled
  THEN [q |-> Set(st, [input |-> input, loading |-> TRUE]),
        ops |-> Append(os, NewOp(kind, input, FALSE)), stop |-> stp, by |-> by]
  ELSE [q |-> Set(st, [input |-> input, loading |-> TRUE,
                       data |-> IF st.keepPreviousData THEN st.data ELSE Undefined,
                       error |-> Undefined]),
        ops |-> Append(CallStop(os, stp), NewOp(kind, input, TRUE)),
        stop |-> Len(os) + 1, by |-> "none"]

\* query that replaces the stop closure without invoking the old one
QueryCall_KeepsOldRunning(st, os, stp, by, input, kind) ==
  IF ~st.enabled
  THEN [q |-> st, ops |-> Append(os, NewOp(kind, input, FALSE)), stop |-> stp,
        by |-> by]
  ELSE [q |-> Set(st, [input |-> input, loading |-> TRUE,
                       data |-> IF st.keepPreviousData THEN st.data ELSE Undefined,
                       error |-> Undefined]),
        ops |-> Append(os, NewOp(kind, input, TRUE)),
        stop |-> Len(os) + 1, by |-> "none"]

\* query that clears data whatever keepPreviousData says
QueryCall_ClearsData(st, os, stp, by, input, kind) ==
  IF ~st.enabled
  THEN [q |-> st, ops |-> Append(os, NewOp(kind, input, FALSE)), stop |-> stp,
        by |-> by]
  ELSE [q |-> Set(st, [input |-> input, loading |-> TRUE,
                       data |-> Undefined, error |-> Undefined]),
        ops |-> Append(CallStop(os, stp), NewOp(kind, input, TRUE)),
        stop |-> Len(os) + 1, by |-> "none"]

\* query(input, opts) up to its await
QueryCall(st, os, stp, by, input, kind) ==
  IF ~st.enabled
  THEN [q |-> st, ops |-> Append(os, NewOp(kind, input, FALSE)), stop |-> stp,
        by |-> by]
  ELSE [q |-> Set(st, [input |-> input, loading |-> TRUE,
                       data |-> IF st.keepPreviousData THEN st.data ELSE Undefined,
                       error |-> Undefined]),
        ops |-> Append(CallStop(os, stp), NewOp(kind, input, TRUE)),
        stop |-> Len(os) + 1, by |-> "none"]

\* settlement handlers with a slip: no test of stopped; the error not stored
QueryOnSettled_IgnoresStopped(st, stopped, patch) ==
  Set(st, patch)

QueryOnSettled_DropsError(st, stopped, patch) ==
  IF ~stopped THEN Set(st, [loading |-> patch.loading]) ELSE st

\* the code after the await: if (!stopped) set(...)
QueryOnSettled(st, stopped, patch) ==
  IF ~stopped THEN Set(st, patch) ELSE st

Query ==
  /\ Calls + 1 + Reserved <= MaxOps
  /\ LET r == QueryCall(q, qOps, qStop, qCancelledBy, InputOf(Len(qOps) + 1), "query")
     IN /\ q' = r.q
        /\ qOps' = r.ops
        /\ qStop' = r.stop
        /\ qCancelledBy' = r.by
  /\ UNCHANGED <<mVars, refetchStores, liveVars, sVars>>

\* refetch that passes the input of the call made last instead of the stored one
RefetchCall_ReusesLastCallInput(st, os, stp, by) ==
  QueryCall(st, os, stp, by,
            IF os = <<>> THEN Undefined ELSE os[Len(os)].input, "refetch")

\* refetch that issues the remote call without query's stop()
RefetchCall_KeepsOldRunning(st, os, stp, by) ==
  QueryCall_KeepsOldRunning(st, os, stp, by, st.input, "refetch")

\* refetch(opts): get().query(get().input, opts)
RefetchCall(st, os, stp, by) ==
  QueryCall(st, os, stp, by, st.input, "refetch")

Refetch ==
  /\ Calls + 1 + Reserved <= MaxOps
  /\ LET r == RefetchCall(q, qOps, qStop, qCancelledBy)
     IN /\ q' = r.q
        /\ qOps' = r.ops
        /\ qStop' = r.stop
        /\ qCancelledBy' = r.by
  /\ UNCHANGED <<mVars, refetchStores, liveVars, sVars>>

QSettle(k, ok) ==
  /\ k \in 1..Len(qOps)
  /\ qOps[k].remote /\ qOps[k].promise = "pending"
  /\ q' = QueryOnSettled(q, qOps[k].stopped,
            IF ok THEN [loading |-> FALSE, data |-> RemoteResult(k)]
                  ELSE [loading |-> FALSE, error |-> RemoteError(k)])
  /\ qOps' = [qOps EXCEPT ![k] = Settled(@, ok, k)]
  /\ UNCHANGED <<mVars, qStop, qCancelledBy, refetchStores, liveVars, sVars>>

QEnable ==
  /\ q' = Set(q, [enabled |-> TRUE])
  /\ UNCHANGED <<mVars, qOps, qStop, qCancelledBy, refetchStores, liveVars, sVars>>

\* disable that clears the state without calling stop()
QDisable_ForgetsStop ==
  /\ q' = Set(q, [enabled |-> FALSE] @@ InitialState)
  /\ UNCHANGED <<mVars, qOps, qStop, qCancelledBy, refetchStores, liveVars, sVars>>

QDisable ==
  /\ qOps' = CallStop(qOps, qStop)
  /\ qCancelledBy' = CancelledBy(qOps, qStop, qCancelledBy, "disable")
  /\ q' = Set(q, [enabled |-> FALSE] @@ InitialState)
  /\ UNCHANGED <<mVars, qStop, refetchStores, liveVars, sVars>>

QToggle ==
  IF q.enabled THEN QDisable ELSE QEnable

\* reset that clears the state without calling stop()
QReset_ForgetsStop ==
  /\ q' = Set(q, InitialState)
  /\ UNCHANGED <<mVars, qOps, qStop, qCancelledBy, refetchStores, liveVars, sVars>>

QReset ==
  /\ qOps' = CallStop(qOps, qStop)
  /\ qCancelledBy' = CancelledBy(qOps, qStop, qCancelledBy, "reset")
  /\ q' = Set(q, InitialState)
  /\ UNCHANGED <<mVars, qStop, refetchStores, liveVars, sVars>>

\* --------------------------------------------------------- mutation store
\* mutate that keeps the previous data while loading
MutateCall_KeepsData(st, os, stp, by, input) ==
  IF ~st.enabled
  THEN [m |-> st, ops |-> Append(os, NewOp("mutate", input, FALSE)), stop |-> stp,
        by |-> by]
  ELSE [m |-> Set(st, [input |-> input, loading |-> TRUE, error |-> Undefined]),
        ops |-> Append(CallStop(os, stp), NewOp("mutate", input, TRUE)),
        stop |-> Len(os) + 1, by |-> "none"]

\* mutate(input, opts) up to its await
MutateCall(st, os, stp, by, input) ==
  IF ~st.enabled
  THEN [m |-> st, ops |-> Append(os, NewOp("mutate", input, FALSE)), stop |-> stp,
        by |-> by]
  ELSE [m |-> Set(st, [input |-> input, loading |-> TRUE,
                       data |-> Undefined, error |-> Undefined]),
        ops |-> Append(CallStop(os, stp), NewOp("mutate", input, TRUE)),
        stop |-> Len(os) + 1, by |-> "none"]

Mutate ==
  /\ Calls + 1 + (IF m.enabled THEN Len(refetchStores) ELSE Reserved) <= MaxOps
  /\ LET r == MutateCall(m, mOps, mStop, mCancelledBy, InputOf(Len(mOps) + 1))
     IN /\ m' = r.m
        /\ mOps' = r.ops
        /\ mStop' = r.stop
        /\ mCancelledBy' = r.by
  /\ UNCHANGED <<qVars, refetchStores, liveVars, sVars>>

\* a settlement handler that leaves loading as it was
MutateOnSettled_KeepsLoading(st, stopped, patch) ==
  IF ~stopped THEN Set(st, [patch EXCEPT !.loading = st.loading]) ELSE st

\* the code after the await: if (!stopped) set(...)
MutateOnSettled(st, stopped, patch) ==
  IF ~stopped THEN Set(st, patch) ELSE st

\* refetching after a failed mutation too
RefetchTargets_AlsoOnFailure(stopped, ok) ==
  IF ~stopped THEN refetchStores ELSE <<>>

\* refetchStores?.()?.forEach(store => store.getState().refetch()), reached
\* only by a mutation that succeeded with stopped = false
RefetchTargets(stopped, ok) ==
  IF ok /\ ~stopped THEN refetchStores ELSE <<>>

\* a mutate whose promise waits for the refetch and fails with it
MutateSettled_AwaitsRefetch(op, ok, k, qo) ==
  IF qo[Len(qo)].remote
  THEN [Settled(op, ok, k) EXCEPT !.refetched = <<Len(qo)>>]
  ELSE [Settled(op, ok, k) EXCEPT !.refetched = <<Len(qo)>>,
                                  !.promise = "rejected",
                                  !.value = qo[Len(qo)].value]

\* the mutate call that refetched: the promise refetch() returned is dropped
\* by forEach, then return result; qo is Q's call log after the refetch
MutateSettled(op, ok, k, qo) ==
  [Settled(op, ok, k) EXCEPT !.refetched = <<Len(qo)>>]

MSettle(k, ok) ==
  /\ k \in 1..Len(mOps)
  /\ mOps[k].remote /\ mOps[k].promise = "pending"
  /\ m' = MutateOnSettled(m, mOps[k].stopped,
            IF ok THEN [loading |-> FALSE, data |-> RemoteResult(k)]
                  ELSE [loading |-> FALSE, error |-> RemoteError(k)])
  /\ IF RefetchTargets(mOps[k].stopped, ok) = <<>>
     THEN /\ mOps' = [mOps EXCEPT ![k] = Settled(@, ok, k)]
          /\ UNCHANGED qVars
     ELSE LET r == RefetchCall(q, qOps, qStop, qCancelledBy)
          IN /\ mOps' = [mOps EXCEPT ![k] = MutateSettled(@, ok, k, r.ops)]
             /\ q' = r.q
             /\ qOps' = r.ops
             /\ qStop' = r.stop
             /\ qCancelledBy' = r.by
  /\ UNCHANGED <<mStop, mCancelledBy, refetchStores, liveVars, sVars>>

MEnable ==
  /\ m' = Set(m, [enabled |-> TRUE])
  /\ UNCHANGED <<qVars, mOps, mStop, mCancelledBy, refetchStores, liveVars, sVars>>

\* disable that only flips enabled
MDisable_KeepsState ==
  /\ mOps' = CallStop(mOps, mStop)
  /\ mCancelledBy' = CancelledBy(mOps, mStop, mCancelledBy, "disable")
  /\ m' = Set(m, [enabled |-> FALSE])
  /\ UNCHANGED <<qVars, mStop, refetchStores, liveVars, sVars>>

MDisable ==
  /\ mOps' = CallStop(mOps, mStop)
  /\ mCancelledBy' = CancelledBy(mOps, mStop, mCancelledBy, "disable")
  /\ m' = Set(m, [enabled |-> FALSE] @@ InitialState)
  /\ UNCHANGED <<qVars, mStop, refetchStores, liveVars, sVars>>

MToggle ==
  IF m.enabled THEN MDisable ELSE MEnable

MReset ==
  /\ mOps' = CallStop(mOps, mStop)
  /\ mCancelledBy' = CancelledBy(mOps, mStop, mCancelledBy, "reset")
  /\ m' = Set(m, InitialState)
  /\ UNCHANGED <<qVars, mStop, refetchStores, liveVars, sVars>>

\* ----------------------------------------------------- subscription store
SubInitialState ==
  [input |-> Undefined, status |-> "idle", data |-> Undefined, error |-> Undefined]

\* result.state of onConnectionStateChange (idle | connecting | pending)
ConnectionStates == {"idle", "connecting", "pending"}

\* the declared type of the status field
SubscriptionStatus == {"idle", "connecting", "pending", "error"}

\* what a callback of the caller finds when it runs: the event, its argument
\* and the store state it reads
Observed(st, event, arg) ==
  [event |-> event, arg |-> arg, status |-> st.status, data |-> st.data,
   error |-> st.error]

NoCallback == Observed(SubInitialState, "none", Undefined)

\* the record of one subscribe call: its input, whether client.subscription
\* was called (otherwise subscribe threw DisabledError), the transport side of
\* the subscription (active until unsubscribed, teardowns performed, items
\* delivered), how often the caller invoked the returned cancel function,
\* whether the caller passed onStarted/onData/onError and what the callback
\* that ran last observed
NewSub(input, opened) ==
  [input |-> input, opened |-> opened, active |-> opened,
   thrown |-> IF opened THEN Undefined ELSE DisabledError,
   teardowns |-> 0, items |-> 0, cancels |-> 0,
   callbacks |-> FALSE, seen |-> NoCallback]

\* an unsubscribe that tears down on every call
Unsubscribe_TearsDownAgain(sub) ==
  [sub EXCEPT !.active = FALSE, !.teardowns = @ + 1]

\* the unsubscribe method of the object client.subscription returned: the
\* transport tears the subscription down once and delivers nothing afterwards
Unsubscribe(sub) ==
  IF sub.active THEN [sub EXCEPT !.active = FALSE, !.teardowns = @ + 1] ELSE sub

\* stop() of the subscription store: () => {} at first (ptr = 0), then the
\* unsubscribe of the subscription opened last
CallUnsubscribe(ss, ptr) ==
  IF ptr = 0 THEN ss ELSE [ss EXCEPT ![ptr] = Unsubscribe(@)]

\* subscribe that opens the new subscription without stopping the old one
SubscribeCall_KeepsOldOpen(st, ss, stp, input) ==
  IF ~st.enabled
  THEN [s |-> st, subs |-> Append(ss, NewSub(input, FALSE)), stop |-> stp]
  ELSE [s |-> Set(st, [input |-> input, status |-> "connecting",
                       data |-> Undefined, error |-> Undefined]),
        subs |-> Append(ss, NewSub(input, TRUE)),
        stop |-> Len(ss) + 1]

\* subscribe(input, opts)
SubscribeCall(st, ss, stp, input) ==
  IF ~st.enabled
  THEN [s |-> st, subs |-> Append(ss, NewSub(input, FALSE)), stop |-> stp]
  ELSE [s |-> Set(st, [input |-> input, status |-> "connecting",
                       data |-> Undefined, error |-> Undefined]),
        subs |-> Append(CallUnsubscribe(ss, stp), NewSub(input, TRUE)),
        stop |-> Len(ss) + 1]

\* subscribe(input): the options are left out
Subscribe ==
  /\ Len(subs) < MaxSubs
  /\ LET r == SubscribeCall(s, subs, sStop, InputOf(Len(subs) + 1))
     IN /\ s' = r.s
        /\ subs' = r.subs
        /\ sStop' = r.stop
  /\ UNCHANGED <<qVars, mVars, refetchStores, liveVars>>

\* subscribe(input, { onStarted, onData, onError })
SubscribeWithCallbacks ==
  /\ Len(subs) < MaxSubs
  /\ LET r == SubscribeCall(s, subs, sStop, InputOf(Len(subs) + 1))
     IN /\ s' = r.s
        /\ subs' = [r.subs EXCEPT ![Len(r.subs)].callbacks = s.enabled]
        /\ sStop' = r.stop
  /\ UNCHANGED <<qVars, mVars, refetchStores, liveVars>>

\* a returned function that also puts the status back to idle
Cancel_ResetsStatus(k) ==
  /\ k \in 1..Len(subs)
  /\ subs[k].opened
  /\ subs[k].cancels < MaxCancels
  /\ subs' = [subs EXCEPT ![k] = [Unsubscribe(@) EXCEPT !.cancels = @ + 1]]
  /\ s' = Set(s, [status |-> "idle"])
  /\ UNCHANGED <<qVars, mVars, refetchStores, liveVars, sStop>>

\* a returned function that calls the store's current stop
Cancel_CallsCurrentStop(k) ==
  /\ k \in 1..Len(subs)
  /\ subs[k].opened
  /\ subs[k].cancels < MaxCancels
  /\ subs' = [CallUnsubscribe(subs, sStop) EXCEPT ![k].cancels = @ + 1]
  /\ UNCHANGED <<qVars, mVars, refetchStores, liveVars, s, sStop>>

\* the caller invokes the function subscribe call k returned
Cancel(k) ==
  /\ k \in 1..Len(subs)
  /\ subs[k].opened
  /\ subs[k].cancels < MaxCancels
  /\ subs' = [subs EXCEPT ![k] = [Unsubscribe(@) EXCEPT !.cancels = @ + 1]]
  /\ UNCHANGED <<qVars, mVars, refetchStores, liveVars, s, sStop>>

\* the handlers passed to client.subscription; the transport calls them for
\* a subscription that has not been unsubscribed
OnStartedState(st) ==
  Set(st, [status |-> "pending", error |-> Undefined])

OnDataState(st, data) ==
  Set(st, [status |-> "pending", data |-> data, error |-> Undefined])

\* an error handler that resets data
OnErrorState_ClearsData(st, error) ==
  Set(st, [status |-> "error", data |-> Undefined, error |-> error])

OnErrorState(st, error) ==
  Set(st, [status |-> "error", error |-> error])

\* a handler that reports a connecting state with an error as "reconnecting"
OnConnectionStateChangeState_Reconnecting(st, state, error) ==
  Set(st, [status |-> IF state = "connecting" /\ error # Undefined
                      THEN "reconnecting" ELSE state,
           error |-> error])

OnConnectionStateChangeState(st, state, error) ==
  Set(st, [status |-> state, error |-> error])

\* a handler that calls the caller's callback before set(...)
Notify_BeforeSet(sub, before, after, event, arg) ==
  IF sub.callbacks THEN [sub EXCEPT !.seen = Observed(before, event, arg)]
  ELSE sub

\* onStarted?.() / onData?.(data) / onError?.(error), the statement after
\* set(...): the callback, when there is one, runs on the updated state
Notify(sub, before, after, event, arg) ==
  IF sub.callbacks THEN [sub EXCEPT !.seen = Observed(after, event, arg)]
  ELSE sub

OnStarted(k) ==
  /\ k \in 1..Len(subs)
  /\ subs[k].active
  /\ s' = OnStartedState(s)
  /\ subs' = [subs EXCEPT ![k] =
                Notify(@, s, OnStartedState(s), "onStarted", Undefined)]
  /\ UNCHANGED <<qVars, mVars, refetchStores, liveVars, sStop>>

OnData(k) ==
  /\ k \in 1..Len(subs)
  /\ subs[k].active
  /\ subs[k].items < MaxItems
  /\ LET data == ItemOf(k, subs[k].items + 1)
     IN /\ s' = OnDataState(s, data)
        /\ subs' = [subs EXCEPT ![k] =
                      Notify([@ EXCEPT !.items = @ + 1], s, OnDataState(s, data),
                             "onData", data)]
  /\ UNCHANGED <<qVars, mVars, refetchStores, liveVars, sStop>>

OnError(k) ==
  /\ k \in 1..Len(subs)
  /\ subs[k].active
  /\ s' = OnErrorState(s, RemoteError(k))
  /\ subs' = [subs EXCEPT ![k] =
                Notify(@, s, OnErrorState(s, RemoteError(k)), "onError",
                       RemoteError(k))]
  /\ UNCHANGED <<qVars, mVars, refetchStores, liveVars, sStop>>

\* result.error is null except for a connecting state that reports an error
OnConnectionStateChange(k, state, hasError) ==
  /\ k \in 1..Len(subs)
  /\ subs[k].active
  /\ hasError => state = "connecting"
  /\ s' = OnConnectionStateChangeState(s, state,
            IF hasError THEN RemoteError(k) ELSE Undefined)
  /\ UNCHANGED <<qVars, mVars, refetchStores, liveVars, subs, sStop>>

SEnable ==
  /\ s' = Set(s, [enabled |-> TRUE])
  /\ UNCHANGED <<qVars, mVars, refetchStores, liveVars, subs, sStop>>

SDisable ==
  /\ subs' = CallUnsubscribe(subs, sStop)
  /\ s' = Set(s, [enabled |-> FALSE] @@ SubInitialState)
  /\ UNCHANGED <<qVars, mVars, refetchStores, liveVars, sStop>>

SToggle ==
  IF s.enabled THEN SDisable ELSE SEnable

SReset ==
  /\ subs' = CallUnsubscribe(subs, sStop)
  /\ s' = Set(s, SubInitialState)
  /\ UNCHANGED <<qVars, mVars, refetchStores, liveVars, sStop>>

\* ------------------------------------------------- live-query registry
\* The registry maps a key to the set of registrations present under it.  A
\* registration is identified by its position in regs (its identity, never
\* reused); it holds its normalized keys and how often its deregistration
\* function has been called.  pass is the invalidation pass in progress or
\* finished last: its normalized keys, the snapshot taken at its start (each
\* matching registration with the number of re-runs it is due), what
\* count(keys) was at its start, the re-runs made so far in order, the
\* registrations whose re-run failed, whether a failure reached the caller of
\* invalidate, and whether a re-run callback registered or deregistered.
Keys == {"a", "b"}

\* the keys arguments; a bare string k is passed as <<k>>
KeyArgs == {<<"a">>, <<"b">>, <<"a", "b">>, <<"a", "a">>}

RerunOutcomes == {"ok", "throws", "rejects"}

KeySet(ks) == {ks[i] : i \in 1..Len(ks)}

RECURSIVE Distinct(_, _)
Distinct(ks, acc) ==
  IF ks = <<>> THEN acc
  ELSE Distinct(Tail(ks), IF Head(ks) \in KeySet(acc) THEN acc
                          ELSE Append(acc, Head(ks)))

\* keys normalized to an ordered set of distinct strings
NormalizeKeys(ks) == Distinct(ks, <<>>)

NewRegistration(keys) ==
  [keys |-> NormalizeKeys(keys), deregs |-> 0]

\* register that inserts the registration under its first key only
RegisterIn_FirstKeyOnly(idx, r, keys) ==
  [k \in Keys |-> IF k = NormalizeKeys(keys)[1] THEN idx[k] \cup {r} ELSE idx[k]]

\* register: inserts the registration under every key
RegisterIn(idx, r, keys) ==
  [k \in Keys |-> IF k \in KeySet(NormalizeKeys(keys)) THEN idx[k] \cup {r}
                  ELSE idx[k]]

\* a deregistration function that drops the whole entry of each of its keys
DeregisterIn_DropsKeys(idx, r, keys) ==
  [k \in Keys |-> IF k \in KeySet(keys) THEN {} ELSE idx[k]]

\* the deregistration function: removes the registration from every key it
\* was added to
DeregisterIn(idx, r, keys) ==
  [k \in Keys |-> IF k \in KeySet(keys) THEN idx[k] \ {r} ELSE idx[k]]

\* the distinct registrations found under the union of the keys
Matching(idx, keys) ==
  UNION {idx[k] : k \in KeySet(NormalizeKeys(keys))}

\* a count that adds up the sizes of the keys' entries
Count_PerKey(keys) ==
  LET ks == NormalizeKeys(keys)
      size[i \in 0..Len(ks)] ==
        IF i = 0 THEN 0 ELSE size[i - 1] + Cardinality(index[ks[i]])
  IN size[Len(ks)]

\* count(keys)
Count(keys) ==
  Cardinality(Matching(index, keys))

\* a snapshot that lists a registration once per invalidated key it is under
Snapshot_PerKey(idx, keys) ==
  [r \in Matching(idx, keys) |->
     Cardinality({k \in KeySet(NormalizeKeys(keys)) : r \in idx[k]})]

\* the stable snapshot invalidate takes: every matching registration, once
Snapshot(idx, keys) ==
  [r \in Matching(idx, keys) |-> 1]

IdlePass ==
  [phase |-> "idle", keys |-> <<>>, snap |-> [r \in {} |-> 1], counted |-> 0,
   calls |-> <<>>, failed |-> {}, raised |-> FALSE, mutated |-> FALSE]

\* how often the pass has re-run registration r
Times(p, r) ==
  Cardinality({i \in 1..Len(p.calls) : p.calls[i] = r})

\* a pass that iterates the registry itself instead of its snapshot
Remaining_ReadsRegistry(p) ==
  IF p.raised THEN {}
  ELSE {r \in Matching(index, p.keys) : Times(p, r) = 0}

\* the registrations the pass has still to re-run
Remaining(p) ==
  IF p.raised THEN {}
  ELSE {r \in DOMAIN p.snap : Times(p, r) < p.snap[r]}

\* a pass that lets a thrown failure escape to the caller of invalidate
AfterRerun_Rethrows(p, r, outcome) ==
  [p EXCEPT !.calls = Append(@, r),
            !.failed = IF outcome = "ok" THEN @ ELSE @ \cup {r},
            !.raised = @ \/ outcome = "throws"]

\* the pass after the re-run callback of r returned, threw or rejected: the
\* failure is caught locally and goes to r's own error channel
AfterRerun(p, r, outcome) ==
  [p EXCEPT !.calls = Append(@, r),
            !.failed = IF outcome = "ok" THEN @ ELSE @ \cup {r}]

InPass == pass.phase = "running"

Register(keys) ==
  /\ ~InPass
  /\ Len(regs) < MaxRegs
  /\ regs' = Append(regs, NewRegistration(keys))
  /\ index' = RegisterIn(index, Len(regs) + 1, keys)
  /\ pass' = IdlePass
  /\ UNCHANGED <<qVars, mVars, refetchStores, sVars, wireVars>>

\* the function register call r returned is called
Deregister(r) ==
  /\ ~InPass
  /\ r \in 1..Len(regs)
  /\ regs[r].deregs < MaxCancels
  /\ regs' = [regs EXCEPT ![r].deregs = @ + 1]
  /\ index' = DeregisterIn(index, r, regs[r].keys)
  /\ pass' = IdlePass
  /\ UNCHANGED <<qVars, mVars, refetchStores, sVars, wireVars>>

\* invalidate(keys) up to its first re-run
InvalidateStart(keys) ==
  /\ ~InPass
  /\ pass' = [IdlePass EXCEPT !.phase = "running",
                              !.keys = NormalizeKeys(keys),
                              !.snap = Snapshot(index, keys),
                              !.counted = Count(keys)]
  /\ UNCHANGED <<qVars, mVars, refetchStores, sVars, index, regs, wireVars>>

\* invalidate re-runs r; the callback does not touch the registry
Rerun(r, outcome) ==
  /\ InPass
  /\ r \in Remaining(pass)
  /\ pass' = AfterRerun(pass, r, outcome)
  /\ UNCHANGED <<qVars, mVars, refetchStores, sVars, index, regs, wireVars>>

\* invalidate re-runs r and the callback registers a new registration
RerunRegisters(r, outcome, keys) ==
  /\ InPass
  /\ r \in Remaining(pass)
  /\ Len(regs) < MaxRegs
  /\ regs' = Append(regs, NewRegistration(keys))
  /\ index' = RegisterIn(index, Len(regs) + 1, keys)
  /\ pass' = [AfterRerun(pass, r, outcome) EXCEPT !.mutated = TRUE]
  /\ UNCHANGED <<qVars, mVars, refetchStores, sVars, wireVars>>

\* invalidate re-runs r and the callback calls the deregistration function
\* of j (its own or another one's)
RerunDeregisters(r, outcome, j) ==
  /\ InPass
  /\ r \in Remaining(pass)
  /\ j \in 1..Len(regs)
  /\ regs[j].deregs < MaxCancels
  /\ regs' = [regs EXCEPT ![j].deregs = @ + 1]
  /\ index' = DeregisterIn(index, j, regs[j].keys)
  /\ pass' = [AfterRerun(pass, r, outcome) EXCEPT !.mutated = TRUE]
  /\ UNCHANGED <<qVars, mVars, refetchStores, sVars, wireVars>>

\* invalidate returns to its caller
InvalidateReturn ==
  /\ InPass
  /\ Remaining(pass) = {}
  /\ pass' = [pass EXCEPT !.phase = "done"]
  /\ UNCHANGED <<qVars, mVars, refetchStores, sVars, index, regs, wireVars>>

\* ------------------------------------------------- live-query wiring
\* A live subscription is the subscription resolver built on the registry.
\* lives[l] is the subscription whose re-run closure is registration l: it is
\* open until its teardown, which has a cause; handle counts the calls the
\* wiring made of the deregistration handle, started and settled the resolver
\* re-runs that began and ended, yields the values sent to the subscriber
\* (the initial value included).
TeardownSignals == {"cancel", "disconnect"}

\* what the key function returns: one key, or a general and a specific key
LiveKeyArgs == {<<"a">>, <<"a", "b">>}

RerunResults == {"pending", "value", "fails"}

NewLive ==
  [open |-> TRUE, cause |-> "none", handle |-> 0,
   started |-> 0, settled |-> 0, yields |-> 1]

\* a teardown that calls the deregistration handle on every signal
Teardown_OnEverySignal(lv, cause) ==
  [lv EXCEPT !.open = FALSE, !.cause = IF lv.open THEN cause ELSE @,
             !.handle = @ + 1]

\* subscription teardown: the first cause closes the subscription and calls
\* the deregistration handle; a later one finds it closed
Teardown(lv, cause) ==
  IF lv.open
  THEN [lv EXCEPT !.open = FALSE, !.cause = cause, !.handle = @ + 1]
  ELSE lv

\* the resolver's result reaches the subscription: a value is yielded to an
\* open subscription, a failure is its error and tears it down, and a closed
\* subscription takes nothing
Deliver(lv, ok) ==
  IF ~lv.open THEN lv
  ELSE IF ok THEN [lv EXCEPT !.yields = @ + 1]
  ELSE Teardown(lv, "error")

\* the registry after the wiring of l went from lv to lvNext: the
\* deregistration handle was called as often as handle grew
HandleCalls(rs, l, lv, lvNext) ==
  [rs EXCEPT ![l].deregs = @ + (lvNext.handle - lv.handle)]

HandleIndex(idx, l, lv, lvNext) ==
  IF lvNext.handle > lv.handle THEN DeregisterIn(idx, l, regs[l].keys) ELSE idx

\* the resolver re-runs started so far
Reruns ==
  LET sum[l \in 0..Len(lives)] ==
        IF l = 0 THEN 0 ELSE sum[l - 1] + lives[l].started
  IN sum[Len(lives)]

\* a subscription starts: the key function gives its keys, the resolver gives
\* the initial value, which is yielded, and the re-run closure is registered
LiveStart(keys) ==
  /\ ~InPass
  /\ Len(regs) < MaxRegs
  /\ regs' = Append(regs, NewRegistration(keys))
  /\ index' = RegisterIn(index, Len(regs) + 1, keys)
  /\ lives' = Append(lives, NewLive)
  /\ pass' = IdlePass
  /\ UNCHANGED <<qVars, mVars, refetchStores, sVars, keyArgs, keyStrings>>

\* the subscriber cancels or its client disconnects (a subscription that
\* is closed already may still get the signal)
LiveEnd(l, cause) ==
  /\ ~InPass
  /\ l \in 1..Len(lives)
  /\ LET lv == Teardown(lives[l], cause)
     IN /\ lives' = [lives EXCEPT ![l] = lv]
        /\ regs' = HandleCalls(regs, l, lives[l], lv)
        /\ index' = HandleIndex(index, l, lives[l], lv)
  /\ pass' = IdlePass
  /\ UNCHANGED <<qVars, mVars, refetchStores, sVars, keyArgs, keyStrings>>

\* invalidate(keys) on a store whose registrations are live subscriptions
LiveInvalidate(keys) ==
  /\ Reruns + Cardinality(Matching(index, keys)) <= MaxReruns
  /\ InvalidateStart(keys)

\* the pass calls the re-run closure of r, which re-invokes the resolver: the
\* resolver is still running when the closure returns, or it has given a
\* value, or it has failed
LiveRerun(r, result) ==
  /\ InPass
  /\ r \in Remaining(pass)
  /\ LET began == [lives[r] EXCEPT !.started = @ + 1]
         lv == IF result = "pending" THEN began
               ELSE Deliver([began EXCEPT !.settled = @ + 1], result = "value")
     IN /\ lives' = [lives EXCEPT ![r] = lv]
        /\ regs' = HandleCalls(regs, r, lives[r], lv)
        /\ index' = HandleIndex(index, r, lives[r], lv)
        /\ pass' = [AfterRerun(pass, r, "ok") EXCEPT
                      !.mutated = @ \/ lv.handle > lives[r].handle]
  /\ UNCHANGED <<qVars, mVars, refetchStores, sVars, keyArgs, keyStrings>>

\* a resolver re-run that was still running ends
LiveSettle(l, ok) ==
  /\ ~InPass
  /\ l \in 1..Len(lives)
  /\ lives[l].settled < lives[l].started
  /\ LET lv == Deliver([lives[l] EXCEPT !.settled = @ + 1], ok)
     IN /\ lives' = [lives EXCEPT ![l] = lv]
        /\ regs' = HandleCalls(regs, l, lives[l], lv)
        /\ index' = HandleIndex(index, l, lives[l], lv)
  /\ pass' = IdlePass
  /\ UNCHANGED <<qVars, mVars, refetchStores, sVars, keyArgs, keyStrings>>

\* --------------------------------------------------------- the key helper
\* key(name, params): a normalized key string built from a name and a
\* parameter object.  An object is the sequence of its entries <<field,
\* value>> in insertion order; a string is the sequence of its tokens.
FieldOrder == <<"id", "version", "west", "zone">>   \* in sorting order

Fields == {FieldOrder[i] : i \in 1..MaxFields}

Scalars == {"1", "2"}

Names == {"post"}

Rank(f) == CHOOSE i \in 1..Len(FieldOrder) : FieldOrder[i] = f

FieldSet(obj) == {obj[i][1] : i \in 1..Len(obj)}

EntrySet(obj) == {obj[i] : i \in 1..Len(obj)}

\* the objects with distinct fields, in every insertion order
Objects ==
  {obj \in UNION {[1..n -> Fields \X Scalars] : n \in 0..MaxFields} :
     Cardinality(FieldSet(obj)) = Len(obj)}

RECURSIVE InsertEntry(_, _)
InsertEntry(e, sorted) ==
  IF sorted = <<>> THEN <<e>>
  ELSE IF Rank(e[1]) <= Rank(Head(sorted)[1]) THEN <<e>> \o sorted
  ELSE <<Head(sorted)>> \o InsertEntry(e, Tail(sorted))

\* the entries sorted by field name
RECURSIVE SortEntries(_)
SortEntries(obj) ==
  IF obj = <<>> THEN <<>> ELSE InsertEntry(Head(obj), SortEntries(Tail(obj)))

\* the entries written out one after the other, each scalar stringified
RECURSIVE SerializeEntries(_)
SerializeEntries(obj) ==
  IF obj = <<>> THEN <<>>
  ELSE <<Head(obj)[1], ":", Head(obj)[2], ",">> \o SerializeEntries(Tail(obj))

Serialize(name, obj) ==
  <<name, "{">> \o SerializeEntries(obj) \o <<"}">>

\* a key helper that serializes the entries in insertion order
Key_InsertionOrder(name, obj) ==
  Serialize(name, obj)

\* key(name, params): object entries are sorted by key before serialization
Key(name, obj) ==
  Serialize(name, SortEntries(obj))

NoKeyCall == [name |-> "", a |-> <<>>, b |-> <<>>]

\* the application builds the keys of two parameter objects under one name
CallKey ==
  /\ keyStrings = <<>>
  /\ keyStrings' = <<Key(keyArgs.name, keyArgs.a), Key(keyArgs.name, keyArgs.b)>>
  /\ UNCHANGED <<qVars, mVars, refetchStores, sVars, index, regs, pass, lives,
                 keyArgs>>

\* ------------------------------------------------------------------ Init
\* The stores right after their creators ran.  enabled and keepPreviousData
\* are the options passed to the creator factories; refetchStores is
\* () => [Q] as in the demo client.
QueryInit ==
  /\ \E e \in BOOLEAN, kpd \in BOOLEAN :
       q = [enabled |-> e, keepPreviousData |-> kpd] @@ InitialState
  /\ qOps = <<>>
  /\ qStop = 0
  /\ qCancelledBy = "none"

MutationInit ==
  /\ \E e \in BOOLEAN : m = [enabled |-> e] @@ InitialState
  /\ mOps = <<>>
  /\ mStop = 0
  /\ mCancelledBy = "none"
  /\ refetchStores = <<"Q">>

SubscriptionInit ==
  /\ \E e \in BOOLEAN : s = [enabled |-> e] @@ SubInitialState
  /\ subs = <<>>
  /\ sStop = 0

\* the default options (enabled = true, keepPreviousData = true)
QueryDefault ==
  /\ q = [enabled |-> TRUE, keepPreviousData |-> TRUE] @@ InitialState
  /\ qOps = <<>>
  /\ qStop = 0
  /\ qCancelledBy = "none"

MutationDefault ==
  /\ m = [enabled |-> TRUE] @@ InitialState
  /\ mOps = <<>>
  /\ mStop = 0
  /\ mCancelledBy = "none"
  /\ refetchStores = <<"Q">>

SubscriptionDefault ==
  /\ s = [enabled |-> TRUE] @@ SubInitialState
  /\ subs = <<>>
  /\ sStop = 0

\* the registry of a new live store: no registration under any key
RegistryInit ==
  /\ index = [k \in Keys |-> {}]
  /\ regs = <<>>
  /\ pass = IdlePass
  /\ lives = <<>>

\* no live subscription has started and the key helper has not been called
LiveStoreInit ==
  /\ RegistryInit
  /\ keyArgs = NoKeyCall
  /\ keyStrings = <<>>

\* ------------------------------------- query and mutation stores together
\* the demo client: useTodosStore and useAddTodoStore with default options
Init == QueryDefault /\ MutationDefault /\ SubscriptionDefault /\ LiveStoreInit

Next ==
  \/ Query
  \/ Refetch
  \/ \E k \in 1..MaxOps, ok \in BOOLEAN : QSettle(k, ok)
  \/ QEnable
  \/ QDisable
  \/ QToggle
  \/ QReset
  \/ Mutate
  \/ \E k \in 1..MaxOps, ok \in BOOLEAN : MSettle(k, ok)
  \/ MEnable
  \/ MDisable
  \/ MToggle
  \/ MReset

Spec == Init /\ [][Next]_vars

\* ------------------------------------------- the query store on its own
\* a query store created with any options
QueryStoreInit ==
  QueryInit /\ MutationDefault /\ SubscriptionDefault /\ LiveStoreInit

QueryNext ==
  \/ Query
  \/ Refetch
  \/ \E k \in 1..MaxOps, ok \in BOOLEAN : QSettle(k, ok)
  \/ QEnable
  \/ QDisable
  \/ QToggle
  \/ QReset

QuerySpec == QueryStoreInit /\ [][QueryNext]_vars

\* ---------------------------------------- the mutation store on its own
\* a mutation store created with any enabled option and no refetchStores
MutationStoreInit ==
  /\ QueryDefault /\ SubscriptionDefault /\ LiveStoreInit
  /\ \E e \in BOOLEAN : m = [enabled |-> e] @@ InitialState
  /\ mOps = <<>>
  /\ mStop = 0
  /\ mCancelledBy = "none"
  /\ refetchStores = <<>>

MutationNext ==
  \/ Mutate
  \/ \E k \in 1..MaxOps, ok \in BOOLEAN : MSettle(k, ok)
  \/ MEnable
  \/ MDisable
  \/ MToggle
  \/ MReset

MutationSpec == MutationStoreInit /\ [][MutationNext]_vars

\* ------------------------------------------------- the subscription store
SubInit == QueryDefault /\ MutationDefault /\ SubscriptionInit /\ LiveStoreInit

SubNext ==
  \/ Subscribe
  \/ \E k \in 1..MaxSubs : Cancel(k)
  \/ \E k \in 1..MaxSubs : OnStarted(k)
  \/ \E k \in 1..MaxSubs : OnData(k)
  \/ \E k \in 1..MaxSubs : OnError(k)
  \/ \E k \in 1..MaxSubs, state \in ConnectionStates, hasError \in BOOLEAN :
       OnConnectionStateChange(k, state, hasError)
  \/ SEnable
  \/ SDisable
  \/ SToggle
  \/ SReset

SubSpec == SubInit /\ [][SubNext]_vars

\* ------------------------------------------- the three stores side by side
\* any options; the application makes at most MaxCalls trigger calls (the
\* refetch calls a mutation makes come on top)
AllInit == QueryInit /\ MutationInit /\ SubscriptionInit /\ LiveStoreInit

RefetchedByMutation ==
  {j \in 1..Len(qOps) :
     \E k \in 1..Len(mOps) : \E i \in 1..Len(mOps[k].refetched) :
       mOps[k].refetched[i] = j}

WithinMaxCalls ==
  Len(qOps) + Len(mOps) + Len(subs) - Cardinality(RefetchedByMutation) <= MaxCalls

AllNext ==
  /\ Next \/ SubNext
  /\ WithinMaxCalls'

AllSpec == AllInit /\ [][AllNext]_vars

\* ------------------------------ the subscription store and its callbacks
\* an enabled subscription store whose caller passes callbacks to some of its
\* subscribe calls and ends subscriptions with reset()
CallbackNext ==
  \/ Subscribe
  \/ SubscribeWithCallbacks
  \/ \E k \in 1..MaxSubs : OnStarted(k)
  \/ \E k \in 1..MaxSubs : OnData(k)
  \/ \E k \in 1..MaxSubs : OnError(k)
  \/ \E k \in 1..MaxSubs, state \in ConnectionStates, hasError \in BOOLEAN :
       OnConnectionStateChange(k, state, hasError)
  \/ SReset

CallbackSpec == Init /\ [][CallbackNext]_vars

\* ------------------------------------------------- the live-query wiring
\* a live store all of whose registrations are live subscriptions
WireNext ==
  \/ \E keys \in LiveKeyArgs : LiveStart(keys)
  \/ \E l \in 1..MaxRegs, cause \in TeardownSignals : LiveEnd(l, cause)
  \/ \E keys \in KeyArgs : LiveInvalidate(keys)
  \/ \E r \in 1..MaxRegs, result \in RerunResults : LiveRerun(r, result)
  \/ InvalidateReturn
  \/ \E l \in 1..MaxRegs, ok \in BOOLEAN : LiveSettle(l, ok)

WireSpec == Init /\ [][WireNext]_vars

\* --------------------------------------------------------- the key helper
\* the key helper applied to any name and any two parameter objects
KeyInit ==
  /\ QueryDefault /\ MutationDefault /\ SubscriptionDefault /\ RegistryInit
  /\ keyArgs \in [name : Names, a : Objects, b : Objects]
  /\ keyStrings = <<>>

KeyNext == CallKey

KeySpec == KeyInit /\ [][KeyNext]_vars

\* --------------------------------------------------- the live-query registry
LiveInit == QueryDefault /\ MutationDefault /\ SubscriptionDefault /\ LiveStoreInit

LiveNext ==
  \/ \E keys \in KeyArgs : Register(keys)
  \/ \E r \in 1..MaxRegs : Deregister(r)
  \/ \E keys \in KeyArgs : InvalidateStart(keys)
  \/ \E r \in 1..MaxRegs, outcome \in RerunOutcomes : Rerun(r, outcome)
  \/ \E r \in 1..MaxRegs, outcome \in RerunOutcomes, keys \in KeyArgs :
       RerunRegisters(r, outcome, keys)
  \/ \E r \in 1..MaxRegs, outcome \in RerunOutcomes, j \in 1..MaxRegs :
       RerunDeregisters(r, outcome, j)
  \/ InvalidateReturn

LiveSpec == LiveInit /\ [][LiveNext]_vars

TypeOK ==
  /\ q.enabled \in BOOLEAN /\ q.loading \in BOOLEAN
  /\ m.enabled \in BOOLEAN /\ m.loading \in BOOLEAN
  /\ Calls <= MaxOps
  /\ qStop \in 0..Len(qOps) /\ mStop \in 0..Len(mOps)
  /\ s.status \in {"idle", "connecting", "pending", "error"}
  /\ Len(subs) <= MaxSubs /\ sStop \in 0..Len(subs)

\* ======================================================== checked claims
\* the call made last on a store that issued its remote call (0: none)
LastRemote(os) ==
  IF \E k \in 1..Len(os) : os[k].remote
  THEN CHOOSE k \in 1..Len(os) : os[k].remote /\ \A j \in (k + 1)..Len(os) : ~os[j].remote
  ELSE 0

\* the remote call of call k settles in this step
Settles(os, osNext, k) ==
  os[k].promise = "pending" /\ osNext[k].promise # "pending"

\* the fields reset() and disable() restore
Cleared(st) ==
  /\ st.input = Undefined
  /\ st.loading = FALSE
  /\ st.data = Undefined
  /\ st.error = Undefined

SubCleared(st) ==
  /\ st.input = Undefined
  /\ st.status = "idle"
  /\ st.data = Undefined
  /\ st.error = Undefined

\* the state reflects the outcome of the settled call b and of no other call
ReflectsOutcome(st, os, b) ==
  /\ st.input = os[b].input
  /\ st.loading = FALSE
  /\ os[b].promise = "resolved" => st.data = RemoteResult(b) /\ st.error = Undefined
  /\ os[b].promise = "rejected" => st.error = RemoteError(b)

\* a call that was superseded by a later call settles without changing the store
SupersededSettleKeepsState(st, stNext, os, osNext) ==
  \A a \in 1..Len(os) :
    (Settles(os, osNext, a) /\ \E b \in (a + 1)..Len(os) : os[b].remote)
      => stNext = st

MostRecentOutcome(st, os) ==
  LET b == LastRemote(os)
  IN (b # 0 /\ ~os[b].stopped /\ os[b].promise # "pending")
       => ReflectsOutcome(st, os, b)

\* C1: most recent call wins.  On the query store and on the mutation store,
\* when call a was followed by call b before a's remote call settled, a's
\* settlement (success or failure, before or after b's) leaves the store state
\* unchanged, and once b, the most recent call, has settled un-cancelled, the
\* state is input = b's input, loading = false, and data = b's result or
\* error = b's error.
C1_MostRecentCallWins ==
  /\ [](MostRecentOutcome(q, qOps) /\ MostRecentOutcome(m, mOps))
  /\ [][/\ SupersededSettleKeepsState(q, q', qOps, qOps')
        /\ SupersededSettleKeepsState(m, m', mOps, mOps')]_vars

\* query(a), query(b), b resolved and a then failed: the state is b's
C1_Witness ==
  /\ Len(qOps) = 2
  /\ qOps[1].kind = "query" /\ qOps[2].kind = "query"
  /\ qOps[1].promise = "rejected" /\ qOps[1].effect = "skipped"
  /\ qOps[2].promise = "resolved" /\ qOps[2].effect = "set"
  /\ ~qOps[2].stopped
  /\ q.data = RemoteResult(2) /\ q.input = InputOf(2)

\* the refetch calls on Q that mutate call k made
RefetchesOf(k) == mOps[k].refetched

DisabledCallFails(st, stNext, os, osNext, stp, stpNext) ==
  (~st.enabled /\ Len(osNext) > Len(os))
    => /\ stNext = st
       /\ stpNext = stp
       /\ Len(osNext) = Len(os) + 1
       /\ SubSeq(osNext, 1, Len(os)) = os
       /\ ~osNext[Len(osNext)].remote
       /\ osNext[Len(osNext)].promise = "rejected"
       /\ osNext[Len(osNext)].value = DisabledError

DisabledSubscribeThrows ==
  (~s.enabled /\ Len(subs') > Len(subs))
    => /\ s' = s
       /\ sStop' = sStop
       /\ Len(subs') = Len(subs) + 1
       /\ SubSeq(subs', 1, Len(subs)) = subs
       /\ ~subs'[Len(subs')].opened
       /\ ~subs'[Len(subs')].active
       /\ subs'[Len(subs')].thrown = DisabledError

\* C3: while enabled is false, query, refetch and mutate return a promise
\* rejected with the disabled error and subscribe throws it; no remote call is
\* issued and no field of the store state (nor the stop closure, nor an
\* earlier call) changes.
C3_DisabledTriggerFails ==
  [][/\ DisabledCallFails(q, q', qOps, qOps', qStop, qStop')
     /\ DisabledCallFails(m, m', mOps, mOps', mStop, mStop')
     /\ DisabledSubscribeThrows]_vars

\* a refetch was rejected on the disabled query store
C3_Witness ==
  /\ \E k \in 1..Len(qOps) :
       /\ qOps[k].kind = "refetch" /\ ~qOps[k].remote
       /\ qOps[k].promise = "rejected" /\ qOps[k].value = DisabledError
  /\ ~q.enabled /\ Cleared(q)

\* C4 as stated: whenever the remote call of a query or mutate call fails,
\* the error is stored in the store's error field and the promise rejects
\* with it.
FailureRecorded(stNext, os, osNext) ==
  \A k \in 1..Len(os) :
    (Settles(os, osNext, k) /\ osNext[k].promise = "rejected")
      => stNext.error = RemoteError(k) /\ osNext[k].value = RemoteError(k)

C4_EveryFailureRecorded ==
  [][FailureRecorded(q', qOps, qOps') /\ FailureRecorded(m', mOps, mOps')]_vars

\* C4 (amended): whenever the remote call of a query or mutate call fails,
\* the returned promise rejects with that error; the error is also stored in
\* the store's error field (with loading = false) when the call was not
\* cancelled before the failure arrived, and a cancelled call leaves the
\* error field as it was.
FailurePropagated(st, stNext, os, osNext) ==
  \A k \in 1..Len(os) :
    (Settles(os, osNext, k) /\ osNext[k].promise = "rejected")
      => /\ osNext[k].value = RemoteError(k)
         /\ ~os[k].stopped => stNext.error = RemoteError(k) /\ ~stNext.loading
         /\ os[k].stopped => stNext.error = st.error

C4_FailureRecordedUnlessCancelled ==
  [][FailurePropagated(q, q', qOps, qOps') /\ FailurePropagated(m, m', mOps, mOps')]_vars

\* a query and a mutation both failed un-cancelled; both errors are in the state
C4_Witness ==
  /\ \E k \in 1..Len(qOps) :
       /\ qOps[k].promise = "rejected" /\ qOps[k].effect = "set"
       /\ qOps[k].value = RemoteError(k) /\ q.error = RemoteError(k)
  /\ \E k \in 1..Len(mOps) :
       /\ mOps[k].promise = "rejected" /\ mOps[k].effect = "set"
       /\ mOps[k].value = RemoteError(k) /\ m.error = RemoteError(k)

\* what a disable() call leaves behind on a query or mutation store
DisableStep(st, stNext, osNext) ==
  (st.enabled /\ ~stNext.enabled)
    => /\ Cleared(stNext)
       /\ Live(osNext) = {}

\* once disable() cancelled the call in flight, the fields stay cleared until
\* the next trigger, whether the store is enabled again or not
CancelledByDisableStays(st, by) ==
  by = "disable" => Cleared(st)

\* C5: disable() sets enabled = false, input, data and error to undefined
\* and loading to false (status to idle on a subscription store) and cancels
\* the operation in flight; a query or mutation that was in flight settles
\* later without changing the store state, also after enable().
C5_DisableClearsAndCancels ==
  /\ [](/\ CancelledByDisableStays(q, qCancelledBy)
        /\ CancelledByDisableStays(m, mCancelledBy)
        /\ ~q.enabled => Cleared(q) /\ Live(qOps) = {}
        /\ ~m.enabled => Cleared(m) /\ Live(mOps) = {}
        /\ ~s.enabled => SubCleared(s) /\ \A k \in 1..Len(subs) : ~subs[k].active)
  /\ [][/\ DisableStep(q, q', qOps')
        /\ DisableStep(m, m', mOps')
        /\ (s.enabled /\ ~s'.enabled)
             => SubCleared(s') /\ \A k \in 1..Len(subs') : ~subs'[k].active]_vars

\* a query was in flight at disable(), enable() followed, then it resolved
C5_Witness ==
  /\ qCancelledBy = "disable"
  /\ q.enabled
  /\ qStop # 0
  /\ qOps[qStop].promise = "resolved" /\ qOps[qStop].effect = "skipped"
  /\ Cleared(q)

\* C6: reset() sets input, data and error to undefined and loading to false
\* (status to idle) and leaves enabled and keepPreviousData as they were, in
\* any state; the fields then keep these values until the next trigger call,
\* whatever call made before the reset settles in between.
C6_ResetRestoresInitialState ==
  /\ [](/\ (qStop # 0 /\ qOps[qStop].stopped) => Cleared(q)
        /\ (mStop # 0 /\ mOps[mStop].stopped) => Cleared(m))
  /\ [][/\ QReset => /\ Cleared(q')
                     /\ q'.enabled = q.enabled
                     /\ q'.keepPreviousData = q.keepPreviousData
                     /\ Live(qOps') = {}
        /\ MReset => Cleared(m') /\ m'.enabled = m.enabled /\ Live(mOps') = {}
        /\ SReset => /\ SubCleared(s')
                     /\ s'.enabled = s.enabled
                     /\ \A k \in 1..Len(subs') : ~subs'[k].active
        /\ ((\A k \in 1..Len(subs) : ~subs[k].active) /\ Len(subs') = Len(subs))
             => \/ SubCleared(s')
                \/ /\ s'.input = s.input /\ s'.status = s.status
                   /\ s'.data = s.data /\ s'.error = s.error]_vars

\* a query was in flight at reset() and resolved afterwards; the store is
\* still enabled and holds the initial values
C6_Witness ==
  /\ qCancelledBy = "reset"
  /\ q.enabled
  /\ qStop # 0
  /\ qOps[qStop].promise = "resolved" /\ qOps[qStop].effect = "skipped"
  /\ Cleared(q)

\* every call made before another remote call of the same store that is
\* still unsettled has been cancelled
EarlierCallsCancelled(os) ==
  \A a \in 1..Len(os) : \A b \in (a + 1)..Len(os) :
    (os[a].remote /\ os[a].promise = "pending" /\ os[b].remote) => os[a].stopped

\* C7: on each store at most one call is unsettled with stopped = false, and
\* every earlier unsettled call has been cancelled.
C7_AtMostOneLiveCall ==
  /\ Cardinality(Live(qOps)) <= 1
  /\ Cardinality(Live(mOps)) <= 1
  /\ EarlierCallsCancelled(qOps)
  /\ EarlierCallsCancelled(mOps)

\* two queries are unsettled: the first cancelled, the second live
C7_Witness ==
  /\ Len(qOps) >= 2
  /\ qOps[1].remote /\ qOps[1].promise = "pending" /\ qOps[1].stopped
  /\ qOps[2].remote /\ qOps[2].promise = "pending" /\ ~qOps[2].stopped
  /\ Live(qOps) = {2}

\* the subscription opened last (0: none)
LastOpened ==
  IF \E k \in 1..Len(subs) : subs[k].opened
  THEN CHOOSE k \in 1..Len(subs) :
         subs[k].opened /\ \A j \in (k + 1)..Len(subs) : ~subs[j].opened
  ELSE 0

\* C8: subscribe on an enabled store sets status = connecting; the start
\* signal and every item set status = pending; the items of a subscription
\* arrive in order and data is the item delivered last; a transport error
\* sets status = "error", stores the error and leaves data as it was.
C8_SubscriptionLifecycle ==
  /\ [](\A k \in 1..Len(subs) :
          (subs[k].active /\ s.input = subs[k].input)
            => s.data = IF subs[k].items = 0 THEN Undefined
                        ELSE ItemOf(k, subs[k].items))
  /\ [][/\ (s.enabled /\ Len(subs') > Len(subs))
             => s'.status = "connecting" /\ s'.data = Undefined
        /\ \A k \in 1..Len(subs) :
             /\ OnStarted(k) => s'.status = "pending" /\ s'.data = s.data
             /\ subs'[k].items = subs[k].items + 1
                  => s'.status = "pending" /\ s'.data = ItemOf(k, subs[k].items + 1)
             /\ OnError(k) => /\ s'.status = "error"
                              /\ s'.error = RemoteError(k)
                              /\ s'.data = s.data]_vars

\* v1 and v2 were delivered, then the transport reported an error
C8_Witness ==
  /\ Len(subs) = 1
  /\ subs[1].active /\ subs[1].items = 2
  /\ s.status = "error"
  /\ s.error = RemoteError(1)
  /\ s.data = ItemOf(1, 2)

\* a handler of subscription k runs in this step
EventOf(k) ==
  \/ OnStarted(k)
  \/ OnData(k)
  \/ OnError(k)
  \/ \E state \in ConnectionStates, hasError \in BOOLEAN :
       OnConnectionStateChange(k, state, hasError)

QueryStarts(kind) ==
  /\ q.enabled
  /\ Len(qOps') = Len(qOps) + 1
  /\ qOps'[Len(qOps')].kind = kind

\* C11: query(input) on an enabled store sets input to the given input,
\* loading = true, error = undefined, and data to the previous data when
\* keepPreviousData is true or to undefined when it is false, and issues the
\* remote call; when the un-cancelled call succeeds the state becomes
\* loading = false, data = result, when it fails loading = false, error = err;
\* no other field changes in either step.
C11_QueryStateTransitions ==
  [][/\ QueryStarts("query")
          => /\ qOps'[Len(qOps')].input = InputOf(Len(qOps'))
             /\ qOps'[Len(qOps')].remote
             /\ q' = [q EXCEPT !.input = InputOf(Len(qOps')),
                               !.loading = TRUE,
                               !.error = Undefined,
                               !.data = IF q.keepPreviousData THEN q.data
                                        ELSE Undefined]
     /\ \A k \in 1..Len(qOps) :
          (Settles(qOps, qOps', k) /\ ~qOps[k].stopped)
            => IF qOps'[k].promise = "resolved"
               THEN q' = [q EXCEPT !.loading = FALSE, !.data = RemoteResult(k)]
               ELSE q' = [q EXCEPT !.loading = FALSE, !.error = RemoteError(k)]]_vars

\* keepPreviousData = true: the first query resolved, the second is in flight
\* and the state still shows the first result
C11_Witness ==
  /\ q.keepPreviousData
  /\ Len(qOps) = 2
  /\ qOps[1].kind = "query" /\ qOps[1].promise = "resolved" /\ qOps[1].effect = "set"
  /\ qOps[2].kind = "query" /\ qOps[2].promise = "pending" /\ ~qOps[2].stopped
  /\ q.loading /\ q.input = InputOf(2) /\ q.data = RemoteResult(1)

\* what query(i) would do in the current state, recorded as a refetch call
AsQueryOf(i) ==
  LET r == QueryCall(q, qOps, qStop, qCancelledBy, i, "query")
  IN [q |-> r.q, stop |-> r.stop,
      ops |-> [r.ops EXCEPT ![Len(r.ops)].kind = "refetch"]]

\* C12: refetch() behaves as query(i) for i the input field at the time of
\* the call: it forwards i (undefined when none is stored) to the remote
\* call, cancels the query in flight and sets the loading state as query
\* does; on a disabled store it is rejected like query.
C12_RefetchIsQueryOfStoredInput ==
  [][(Len(qOps') = Len(qOps) + 1 /\ qOps'[Len(qOps')].kind = "refetch")
       => /\ qOps'[Len(qOps')].input = q.input
          /\ q' = AsQueryOf(q.input).q
          /\ qOps' = AsQueryOf(q.input).ops
          /\ qStop' = AsQueryOf(q.input).stop
          /\ q.enabled => /\ qOps'[Len(qOps')].remote
                          /\ Live(qOps') = {Len(qOps')}
                          /\ q'.input = q.input /\ q'.loading
          /\ ~q.enabled => /\ qOps'[Len(qOps')].value = DisabledError
                           /\ q' = q]_vars

\* query(1) was in flight when refetch() re-issued input 1 and cancelled it;
\* after reset() a second refetch() forwarded undefined
C12_Witness ==
  /\ Len(qOps) = 3
  /\ qOps[1].kind = "query" /\ qOps[1].stopped /\ qOps[1].promise = "pending"
  /\ qOps[2].kind = "refetch" /\ qOps[2].remote /\ qOps[2].input = InputOf(1)
  /\ qOps[3].kind = "refetch" /\ qOps[3].remote /\ qOps[3].input = Undefined
  /\ q.input = Undefined /\ q.loading

\* the mutate calls that refetched, each with the refetch call it made on Q
Refetchers ==
  {k \in 1..Len(mOps) : RefetchesOf(k) # <<>>}

\* C13: the refetches of a successful mutation are fire-and-forget.  The
\* mutate call that triggered a refetch has its promise resolved with its own
\* result, and the step in which it succeeds sets loading = false and
\* data = result with error undefined, whether the refetch was issued or was
\* rejected because Q is disabled; when the refetch later succeeds or fails
\* remotely, neither the mutation store's state nor any mutate promise changes.
C13_RefetchFireAndForget ==
  /\ [](\A k \in Refetchers :
          /\ mOps[k].promise = "resolved"
          /\ mOps[k].value = RemoteResult(k))
  /\ [][/\ \A k \in 1..Len(mOps) :
             (Settles(mOps, mOps', k) /\ ~mOps[k].stopped
                /\ mOps'[k].promise = "resolved")
               => /\ m' = [m EXCEPT !.loading = FALSE, !.data = RemoteResult(k)]
                  /\ m'.error = Undefined
                  /\ mOps'[k].value = RemoteResult(k)
        /\ \A k \in Refetchers :
             Settles(qOps, qOps', RefetchesOf(k)[1]) => m' = m /\ mOps' = mOps]_vars

\* a mutation succeeded while Q was disabled: its refetch was rejected with
\* the disabled error, its own promise resolved and its result is in the state
C13_Witness ==
  \E k \in Refetchers :
    /\ ~qOps[RefetchesOf(k)[1]].remote
    /\ qOps[RefetchesOf(k)[1]].promise = "rejected"
    /\ qOps[RefetchesOf(k)[1]].value = DisabledError
    /\ mOps[k].promise = "resolved" /\ mOps[k].value = RemoteResult(k)
    /\ m.data = RemoteResult(k) /\ ~m.loading /\ m.error = Undefined

Registered(keys) ==
  {r \in 1..Len(regs) :
     regs[r].deregs = 0 /\ KeySet(regs[r].keys) \cap KeySet(keys) # {}}

\* registration r loses its place in the registry in this step
Deregisters(r) ==
  regs'[r].deregs = regs[r].deregs + 1

\* C15: invalidate(keys) re-runs every distinct registration present under
\* at least one of the keys exactly once per call, also one registered under
\* several of the keys, and re-runs no registration under none of them.
C15_InvalidateOncePerRegistration ==
  /\ [](/\ \A r \in 1..Len(regs) :
             Times(pass, r) <= IF r \in DOMAIN pass.snap THEN 1 ELSE 0
        /\ pass.phase = "done"
             => \A r \in DOMAIN pass.snap : Times(pass, r) = 1)
  /\ [][\A keys \in KeyArgs :
          InvalidateStart(keys) => DOMAIN pass'.snap = Registered(keys)]_vars

\* invalidate(["a","b"]) re-ran a registration under both keys once, and did
\* not re-run the other registration, deregistered before the call
C15_Witness ==
  /\ pass.phase = "done" /\ pass.keys = <<"a", "b">>
  /\ ~pass.mutated
  /\ \E r \in 1..Len(regs) :
       /\ regs[r].keys = <<"a", "b">>
       /\ Times(pass, r) = 1
  /\ \E r \in 1..Len(regs) : regs[r].deregs > 0 /\ Times(pass, r) = 0

\* C16: in every reachable state each registration is present in the
\* registry under all of its keys or under none of them (and under no other
\* key).
C16_AllKeysOrNone ==
  \A r \in 1..MaxRegs :
    \/ /\ r \in 1..Len(regs)
       /\ \A k \in Keys : r \in index[k] <=> k \in KeySet(regs[r].keys)
    \/ \A k \in Keys : r \notin index[k]

\* of two registrations under both keys, one is present under both and the
\* other, deregistered, under none
C16_Witness ==
  \E r1, r2 \in 1..Len(regs) :
    /\ regs[r1].keys = <<"a", "b">> /\ regs[r2].keys = <<"a", "b">>
    /\ regs[r1].deregs > 0
    /\ r1 \notin index["a"] /\ r1 \notin index["b"]
    /\ r2 \in index["a"] /\ r2 \in index["b"]

\* C17: the deregistration function removes its registration from every key
\* it was added to and removes nothing else; a second call changes nothing
\* in the registry.
C17_DeregisterIdempotent ==
  [][\A r \in 1..Len(regs) :
       Deregisters(r)
         => /\ \A k \in Keys : index'[k] = index[k] \ {r}
            /\ regs[r].deregs >= 1 => index' = index]_vars

\* the first registration was deregistered twice; a later registration under
\* the same keys is still present
C17_Witness ==
  /\ Len(regs) = 2
  /\ regs[1].deregs = 2
  /\ regs[2].keys = regs[1].keys /\ regs[2].deregs = 0
  /\ \A k \in KeySet(regs[2].keys) : index[k] = {2}

\* C18: count(keys) is the number of distinct registrations present under
\* the union of the keys, one that spans several of them counted once; it is
\* the number of re-runs an invalidate(keys) issued in the same state makes.
C18_CountIsDistinctRegistrations ==
  /\ [](/\ \A keys \in KeyArgs : Count(keys) = Cardinality(Registered(keys))
        /\ pass.phase = "done" => Len(pass.calls) = pass.counted)
  /\ [][\A keys \in KeyArgs :
          InvalidateStart(keys) => pass'.counted = Cardinality(Registered(keys))]_vars

\* one registration under a and b, one under a: count(["a","b"]) = 2, and
\* invalidate(["a","b"]) made two re-runs
C18_Witness ==
  /\ Len(regs) = 2
  /\ regs[1].keys = <<"a", "b">> /\ regs[2].keys = <<"a">>
  /\ Count(<<"a", "b">>) = 2 /\ Count(<<"a">>) = 2 /\ Count(<<"b">>) = 1
  /\ pass.phase = "done" /\ pass.keys = <<"a", "b">> /\ Len(pass.calls) = 2

\* C19: invalidate works on a stable snapshot.  The snapshot is the set of
\* registrations matching at the start of the pass and does not change while
\* the pass runs, whatever the re-run callbacks register or deregister; the
\* re-runs of a finished pass are exactly the snapshot, each once.
C19_StableSnapshot ==
  /\ [](pass.phase = "done"
          => /\ KeySet(pass.calls) = DOMAIN pass.snap
             /\ Len(pass.calls) = Cardinality(DOMAIN pass.snap))
  /\ [][/\ \A keys \in KeyArgs :
             InvalidateStart(keys) => DOMAIN pass'.snap = Registered(keys)
        /\ InPass => pass'.snap = pass.snap /\ pass'.keys = pass.keys]_vars

\* during the pass a re-run callback registered a registration under an
\* invalidated key: it is in the registry, but the pass did not re-run it
C19_Witness ==
  /\ pass.phase = "done" /\ pass.mutated
  /\ DOMAIN pass.snap # {}
  /\ \E r \in Matching(index, pass.keys) :
       r \notin DOMAIN pass.snap /\ Times(pass, r) = 0

\* C20: invalidate isolates failures per registration: a re-run that throws
\* or rejects is recorded for that registration only, the failure never
\* reaches the caller of invalidate, and the pass does not end before every
\* registration of the snapshot has been re-run.
C20_FailureIsolation ==
  /\ [](/\ ~pass.raised
        /\ pass.failed \subseteq KeySet(pass.calls)
        /\ pass.phase = "done" => \A r \in DOMAIN pass.snap : Times(pass, r) = 1)
  /\ [][(InPass /\ ~InPass')
          => \A r \in DOMAIN pass.snap : Times(pass, r) >= 1]_vars

\* the first re-run of a pass failed, the second was still made and succeeded
C20_Witness ==
  /\ pass.phase = "done"
  /\ Len(pass.calls) = 2
  /\ pass.calls[1] \in pass.failed
  /\ pass.calls[2] \notin pass.failed

\* ------------------------------------------- further store claims
\* a call of the store is in flight and has not been cancelled
InFlight(os) ==
  \E k \in 1..Len(os) :
    os[k].remote /\ os[k].promise = "pending" /\ ~os[k].stopped

\* C24: on the query and the mutation store, loading is true if and only if
\* a call of that store is unsettled and has not been cancelled by a later
\* trigger, reset or disable; once the call made last has settled, loading
\* is false.
C24_LoadingIffInFlight ==
  /\ q.loading <=> InFlight(qOps)
  /\ m.loading <=> InFlight(mOps)
  /\ (LastRemote(qOps) # 0 /\ qOps[LastRemote(qOps)].promise # "pending")
       => ~q.loading
  /\ (LastRemote(mOps) # 0 /\ mOps[LastRemote(mOps)].promise # "pending")
       => ~m.loading

\* a superseded query has settled while the query that replaced it is in
\* flight (loading stays true); a mutation has settled (loading is false)
C24_Witness ==
  /\ Len(qOps) = 2
  /\ qOps[1].stopped /\ qOps[1].promise = "resolved" /\ qOps[1].effect = "skipped"
  /\ qOps[2].remote /\ qOps[2].promise = "pending" /\ ~qOps[2].stopped
  /\ q.loading
  /\ Len(mOps) = 1 /\ mOps[1].promise = "rejected" /\ mOps[1].effect = "set"
  /\ ~m.loading

\* C25: a disabled query or mutation store, whatever its enabled option was,
\* has input, data and error undefined and loading false.
C25_DisabledIsCleared ==
  /\ ~q.enabled => Cleared(q)
  /\ ~m.enabled => Cleared(m)

\* a mutation was in flight when the store was disabled and succeeded
\* afterwards: the disabled store holds no data
C25_Witness ==
  /\ ~m.enabled
  /\ mCancelledBy = "disable"
  /\ mStop # 0
  /\ mOps[mStop].promise = "resolved" /\ mOps[mStop].effect = "skipped"
  /\ Cleared(m)

\* a cancelled call settles with its own outcome in this step and leaves the
\* store state as it was
CancelledSettlesOwn(st, stNext, os, osNext) ==
  \A k \in 1..Len(os) :
    (Settles(os, osNext, k) /\ os[k].stopped)
      => /\ stNext = st
         /\ osNext[k].value = IF osNext[k].promise = "resolved"
                              THEN RemoteResult(k) ELSE RemoteError(k)

\* C26: a query or mutate call that was superseded or cancelled still settles
\* the promise it returned with the outcome of its own remote call (its own
\* result or its own error, never that of a newer call), and the store state
\* is not touched by that settlement.
C26_CancelledCallKeepsOwnOutcome ==
  /\ [](\A k \in 1..Len(qOps) :
          (qOps[k].remote /\ qOps[k].promise # "pending")
            => qOps[k].value = IF qOps[k].promise = "resolved"
                               THEN RemoteResult(k) ELSE RemoteError(k))
  /\ [](\A k \in 1..Len(mOps) :
          (mOps[k].remote /\ mOps[k].promise # "pending")
            => mOps[k].value = IF mOps[k].promise = "resolved"
                               THEN RemoteResult(k) ELSE RemoteError(k))
  /\ [][/\ CancelledSettlesOwn(q, q', qOps, qOps')
        /\ CancelledSettlesOwn(m, m', mOps, mOps')]_vars

\* a superseded query resolved with its own result after the newer query had
\* failed; a mutation cancelled by reset() rejected with its own error
C26_Witness ==
  /\ Len(qOps) = 2
  /\ qOps[2].promise = "rejected" /\ qOps[2].effect = "set"
  /\ qOps[1].promise = "resolved" /\ qOps[1].effect = "skipped"
  /\ qOps[1].value = RemoteResult(1)
  /\ q.error = RemoteError(2) /\ q.data = Undefined
  /\ Len(mOps) = 1 /\ mCancelledBy = "reset"
  /\ mOps[1].promise = "rejected" /\ mOps[1].effect = "skipped"
  /\ mOps[1].value = RemoteError(1) /\ Cleared(m)

\* C27: when a mutation whose refetchStores returns Q succeeds un-cancelled
\* while a query is in flight on Q, the refetch it triggers cancels that
\* query: the refetch is then the only call in flight on Q, the earlier
\* query settles without changing Q, and once the refetch has settled
\* un-cancelled Q shows the refetch's outcome.
C27_RefetchSupersedesQuery ==
  /\ [](\A j \in RefetchedByMutation :
          (j = LastRemote(qOps) /\ ~qOps[j].stopped /\ qOps[j].promise # "pending")
            => ReflectsOutcome(q, qOps, j))
  /\ [][\A k \in 1..Len(mOps) :
          (RefetchesOf(k) = <<>> /\ mOps'[k].refetched # <<>> /\ q.enabled)
            => /\ \A a \in 1..Len(qOps) : qOps'[a].stopped \/ qOps[a].promise # "pending"
               /\ Live(qOps') = {mOps'[k].refetched[1]}
               /\ qOps'[mOps'[k].refetched[1]].remote]_vars

\* a query was in flight when the mutation succeeded; the query resolved
\* later and was dropped, the refetch resolved and its result is in Q
C27_Witness ==
  /\ Len(qOps) = 2 /\ Len(mOps) = 1
  /\ qOps[1].kind = "query" /\ qOps[1].stopped
  /\ qOps[1].promise = "resolved" /\ qOps[1].effect = "skipped"
  /\ RefetchesOf(1) = <<2>>
  /\ qOps[2].promise = "resolved" /\ qOps[2].effect = "set"
  /\ q.data = RemoteResult(2) /\ q.input = InputOf(1) /\ ~q.loading

\* C28: on a mutation store data and error are never both defined.
C28_DataAndErrorExclusive ==
  m.data = Undefined \/ m.error = Undefined

\* a mutation succeeded, the next one failed: the error is set, the data of
\* the first is gone
C28_Witness ==
  /\ Len(mOps) = 2
  /\ mOps[1].promise = "resolved" /\ mOps[1].effect = "set"
  /\ mOps[2].promise = "rejected" /\ mOps[2].effect = "set"
  /\ m.error = RemoteError(2) /\ m.data = Undefined

\* ------------------------------------------- further subscription claims
\* C23: for each subscription event the store is updated before the caller's
\* callback runs: onData(v) finds data = v and status pending, onStarted finds
\* status pending, onError(e) finds status error and error = e; the store is
\* updated by the event whether or not a callback was passed.
C23_StateSetBeforeCallback ==
  /\ [](\A k \in 1..Len(subs) :
          LET v == subs[k].seen
          IN /\ v.event = "onData" => v.data = v.arg /\ v.status = "pending"
             /\ v.event = "onStarted" => v.status = "pending"
             /\ v.event = "onError" => v.status = "error" /\ v.error = v.arg
             /\ v.event # "none" => subs[k].callbacks)
  /\ [][\A k \in 1..Len(subs) :
          /\ OnData(k) => /\ s'.data = ItemOf(k, subs'[k].items)
                          /\ s'.status = "pending"
          /\ OnStarted(k) => s'.status = "pending"
          /\ OnError(k) => s'.status = "error" /\ s'.error = RemoteError(k)]_vars

\* a subscription without callbacks received an item; the one that replaced
\* it has callbacks, its onData saw the item in the store and its onError
\* then saw the error
C23_Witness ==
  /\ Len(subs) = 2
  /\ ~subs[1].callbacks /\ subs[1].items = 1 /\ subs[1].seen = NoCallback
  /\ subs[2].callbacks /\ subs[2].items = 1
  /\ subs[2].seen.event = "onError" /\ subs[2].seen.arg = RemoteError(2)
  /\ subs[2].seen.data = ItemOf(2, 1)
  /\ s.status = "error" /\ s.data = ItemOf(2, 1)

\* the cancel function of subscribe call k is called in this step
Cancels(k) ==
  /\ k \in 1..Len(subs)
  /\ subs'[k].cancels = subs[k].cancels + 1

\* C29: the cancel function of a subscribe call that a later subscribe call
\* has replaced is harmless: calling it does not unsubscribe the later
\* subscription, does not change the store state, and the later
\* subscription's items still update data.
C29_StaleCancelHarmless ==
  /\ [][\A k \in 1..Len(subs) :
          (Cancels(k) /\ k # sStop)
            => /\ s' = s
               /\ sStop' = sStop
               /\ \A j \in 1..Len(subs) :
                    j # k => subs'[j] = subs[j]
               /\ ~subs[k].active /\ subs'[k].teardowns = subs[k].teardowns]_vars
  /\ [][\A k \in 1..Len(subs) :
          (OnData(k) /\ \E j \in 1..(k - 1) : subs[j].cancels > 0)
            => /\ s'.data = ItemOf(k, subs[k].items + 1)
               /\ s'.status = "pending"]_vars
  /\ [](\A k \in 1..Len(subs) :
          (k = sStop /\ subs[k].cancels = 0 /\ subs[k].active)
            => \A j \in 1..Len(subs) : subs[j].active => j = k)

\* the first subscription's cancel function was called, the second
\* subscription is open and its second item is the store's data
C29_Witness ==
  /\ Len(subs) = 2 /\ sStop = 2
  /\ subs[1].opened /\ subs[1].cancels = 1 /\ subs[1].teardowns = 1
  /\ subs[2].active /\ subs[2].cancels = 0 /\ subs[2].items = 2
  /\ s.data = ItemOf(2, 2) /\ s.status = "pending" /\ s.input = InputOf(2)

\* C30: the cancel function returned by subscribe only unsubscribes at the
\* transport: enabled, input, status, data and error stay as they are (the
\* status does not go back to idle), and a later reset() or disable() on the
\* cancelled store still brings the state to its initial values.
C30_CancelKeepsStateResetClears ==
  /\ [][\A k \in 1..Len(subs) :
          Cancels(k) => /\ s' = s
                        /\ ~subs'[k].active]_vars
  /\ [][(SReset /\ sStop # 0 /\ subs[sStop].cancels > 0)
          => /\ SubCleared(s')
             /\ s'.enabled = s.enabled]_vars
  /\ [][(SDisable /\ sStop # 0 /\ subs[sStop].cancels > 0)
          => /\ SubCleared(s')
             /\ ~s'.enabled]_vars

\* the current subscription was cancelled by its caller after an item: the
\* store still shows the item with status pending
C30_Witness ==
  /\ sStop # 0
  /\ subs[sStop].cancels = 1 /\ ~subs[sStop].active /\ subs[sStop].items = 1
  /\ s.enabled /\ s.status = "pending" /\ s.input = subs[sStop].input
  /\ s.data = ItemOf(sStop, 1) /\ s.error = Undefined

OpenUnder(keys) ==
  {l \in 1..Len(lives) :
     lives[l].open /\ KeySet(regs[l].keys) \cap KeySet(keys) # {}}

====
